---- MODULE Spec2Model ----
(***************************************************************************)
(* Tic-Tac-Toe (my-tic-tac-toe-app/script.js): the module-level gameState, *)
(* the DOM event handlers that mutate it, the computer-move timer callback *)
(* scheduled with setTimeout, and the pure helpers checkWin, checkDraw and *)
(* findBestMove.                                                           *)
(***************************************************************************)
EXTENDS Integers, Sequences, FiniteSets

VARIABLES
    board,           \* gameState.board: 0..8 -> "", "X", "O"
    currentPlayer,   \* gameState.currentPlayer
    gameActive,      \* gameState.gameActive
    winner,          \* gameState.winner ("null" for null)
    mode,            \* gameState.mode ("null", "two-player", "vs-computer")
    isComputerTurn,  \* gameState.isComputerTurn
    gameAreaHidden,  \* gameArea.classList.contains('hidden')
    timers,          \* number of setTimeout callbacks scheduled and not yet run
    lastOp,          \* the handler that ran last and the path it took
    retval,          \* the value the last makeMove call returned to its caller
    fnOut,           \* the last direct call of a helper: name, argument, result
    stale,           \* pending callbacks that were scheduled before the last reset
    responses        \* marks the callback wrote since the last accepted human X
                     \* move of a vs-computer game that left the game running;
                     \* -1 when a reset or another human move came after it

vars == <<board, currentPlayer, gameActive, winner, mode, isComputerTurn,
          gameAreaHidden, timers, lastOp, retval, fnOut, stale, responses>>

core == <<board, currentPlayer, gameActive, winner>>

\* ---------------------------------------------------------------- bounds
\* Pending setTimeout callbacks the model lets accumulate.
MaxTimers == 2

\* ------------------------------------------------------------- constants
NULL == <<>>

Cells == 0..8

Marks == {"X", "O"}

EmptyBoard == [i \in Cells |-> ""]

\* fnOut while no helper has been called directly.
NoCall == [fn |-> "none", arg |-> EmptyBoard, result |-> NULL]

\* Indices a caller may hand to makeMove: the nine cells and one value on
\* either side of the range.
IndexInputs == -1..9

AllBoards == [Cells -> {"", "X", "O"}]

WINNING_COMBINATIONS ==
    << <<0, 1, 2>>, <<3, 4, 5>>, <<6, 7, 8>>,
       <<0, 3, 6>>, <<1, 4, 7>>, <<2, 5, 8>>,
       <<0, 4, 8>>, <<2, 4, 6>> >>

\* ------------------------------------------------------------ pure helpers
\* b[index] as JavaScript reads it: undefined outside the array.
CellAt(b, index) == IF index \in DOMAIN b THEN b[index] ELSE "undefined"

\* checkWin's test without the truthiness guard on the first cell.
LineComplete_NoTruthy(b, combination) ==
    /\ b[combination[1]] = b[combination[2]]
    /\ b[combination[1]] = b[combination[3]]

\* The test of one combination inside checkWin's loop; '' is falsy.
LineComplete(b, combination) ==
    /\ b[combination[1]] # ""
    /\ b[combination[1]] = b[combination[2]]
    /\ b[combination[1]] = b[combination[3]]

RECURSIVE CheckWinFrom(_, _)
CheckWinFrom(b, k) ==
    IF k > Len(WINNING_COMBINATIONS) THEN NULL
    ELSE IF LineComplete(b, WINNING_COMBINATIONS[k]) THEN WINNING_COMBINATIONS[k]
    ELSE CheckWinFrom(b, k + 1)

checkWin(b) == CheckWinFrom(b, 1)

\* The draw test with some in place of every.
checkDraw_Some(b) == \E i \in DOMAIN b : b[i] # ""

checkDraw(b) == \A i \in DOMAIN b : b[i] # ""

\* The toggle that hands the turn back to the same player.
switchPlayer_Stuck(p) == p

switchPlayer(p) == IF p = "X" THEN "O" ELSE "X"

\* Array.prototype.filter over an index list, order kept.
RECURSIVE FilterEmpty(_, _)
FilterEmpty(b, s) ==
    IF s = <<>> THEN <<>>
    ELSE IF b[Head(s)] = "" THEN <<Head(s)>> \o FilterEmpty(b, Tail(s))
    ELSE FilterEmpty(b, Tail(s))

emptyIndices(b) == FilterEmpty(b, <<0, 1, 2, 3, 4, 5, 6, 7, 8>>)

\* The centre test that never succeeds (a number looked up as a string).
Includes_Never(s, x) == FALSE

\* The centre taken without looking whether it is free.
Includes_Always(s, x) == TRUE

Includes(s, x) == \E k \in 1..Len(s) : s[k] = x

\* Math.floor(Math.random() * n): any of 0 .. n-1.
RandomFloor(n) == 0..(n - 1)

\* The trial loop that returns on a hit without taking the mark off.
RECURSIVE TryEach_NoUndoOnHit(_, _, _, _)
TryEach_NoUndoOnHit(b, mark, empties, k) ==
    IF k > Len(empties) THEN [found |-> FALSE, index |-> -1, board |-> b]
    ELSE LET index == empties[k]
             placed == [b EXCEPT ![index] = mark]
             undone == [placed EXCEPT ![index] = ""]
         IN  IF checkWin(placed) # NULL
             THEN [found |-> TRUE, index |-> index, board |-> placed]
             ELSE TryEach_NoUndoOnHit(undone, mark, empties, k + 1)

\* The trial loop that does not stop at the first hit and keeps the last.
RECURSIVE TryEach_KeepsLast(_, _, _, _)
TryEach_KeepsLast(b, mark, empties, k) ==
    IF k > Len(empties) THEN [found |-> FALSE, index |-> -1, board |-> b]
    ELSE LET index == empties[k]
             placed == [b EXCEPT ![index] = mark]
             undone == [placed EXCEPT ![index] = ""]
             later == TryEach_KeepsLast(undone, mark, empties, k + 1)
         IN  IF later.found THEN later
             ELSE IF checkWin(placed) # NULL
             THEN [found |-> TRUE, index |-> index, board |-> undone]
             ELSE later

\* One of findBestMove's two trial loops: place mark on each empty index in
\* turn, test checkWin, take the mark off again.
RECURSIVE TryEach(_, _, _, _)
TryEach(b, mark, empties, k) ==
    IF k > Len(empties) THEN [found |-> FALSE, index |-> -1, board |-> b]
    ELSE LET index == empties[k]
             placed == [b EXCEPT ![index] = mark]
             undone == [placed EXCEPT ![index] = ""]
         IN  IF checkWin(placed) # NULL
             THEN [found |-> TRUE, index |-> index, board |-> undone]
             ELSE TryEach(undone, mark, empties, k + 1)

PickFrom(s, b) == {[index |-> s[r + 1], board |-> b] : r \in RandomFloor(Len(s))}

\* findBestMove with the block loop ahead of the win loop.
findBestMove_BlockFirst(b) ==
    LET empties == emptyIndices(b)
    IN  IF Len(empties) = 0 THEN {[index |-> -1, board |-> b]}
        ELSE
        LET block == TryEach(b, "X", empties, 1)
        IN  IF block.found THEN {[index |-> block.index, board |-> block.board]}
            ELSE
            LET win == TryEach(block.board, "O", empties, 1)
                after == win.board
                corners == FilterEmpty(after, <<0, 2, 6, 8>>)
                edges == FilterEmpty(after, <<1, 3, 5, 7>>)
            IN  IF win.found THEN {[index |-> win.index, board |-> after]}
                ELSE IF Includes(empties, 4) THEN {[index |-> 4, board |-> after]}
                ELSE IF Len(corners) > 0 THEN PickFrom(corners, after)
                ELSE IF Len(edges) > 0 THEN PickFrom(edges, after)
                ELSE PickFrom(empties, after)

\* findBestMove: the set of (returned index, board left behind) pairs.
findBestMove(b) ==
    LET empties == emptyIndices(b)
    IN  IF Len(empties) = 0 THEN {[index |-> -1, board |-> b]}
        ELSE
        LET win == TryEach(b, "O", empties, 1)
        IN  IF win.found THEN {[index |-> win.index, board |-> win.board]}
            ELSE
            LET block == TryEach(win.board, "X", empties, 1)
                after == block.board
                corners == FilterEmpty(after, <<0, 2, 6, 8>>)
                edges == FilterEmpty(after, <<1, 3, 5, 7>>)
            IN  IF block.found THEN {[index |-> block.index, board |-> after]}
                ELSE IF Includes(empties, 4) THEN {[index |-> 4, board |-> after]}
                ELSE IF Len(corners) > 0 THEN PickFrom(corners, after)
                ELSE IF Len(edges) > 0 THEN PickFrom(edges, after)
                ELSE PickFrom(empties, after)

\* ------------------------------------------------------------------ state
Init ==
    /\ board = EmptyBoard
    /\ currentPlayer = "X"
    /\ gameActive = TRUE
    /\ winner = "null"
    /\ mode = "null"
    /\ isComputerTurn = FALSE
    /\ gameAreaHidden \in BOOLEAN
    /\ timers = 0
    /\ lastOp = "init"
    /\ retval = "none"
    /\ fnOut = NoCall
    /\ stale = 0
    /\ responses = -1

\* ---------------------------------------------------------------- helpers
\* The validation without the gameActive test.
MoveRejected_NoActive(index) == CellAt(board, index) # ""

\* The validation without the occupied-cell test.
MoveRejected_NoOccupied(index) == ~gameActive \/ index \notin Cells

\* makeMove's validation (the early return).
MoveRejected(index) == ~gameActive \/ CellAt(board, index) # ""

\* What kind of call makeMove(index) is, from the state it is made in.
CallKind(index) ==
    IF index \notin Cells THEN "makeMove:outOfRange"
    ELSE IF board[index] # "" THEN "makeMove:occupied"
    ELSE IF ~gameActive THEN "makeMove:inactive"
    ELSE "makeMove:valid"

\* The chain with the draw test ahead of the win test.
Outcome_DrawFirst(b) ==
    IF checkDraw(b) THEN "draw"
    ELSE IF checkWin(b) # NULL THEN "win"
    ELSE "continue"

\* The if / else-if / else chain after a mark is written.
Outcome(b) ==
    IF checkWin(b) # NULL THEN "win"
    ELSE IF checkDraw(b) THEN "draw"
    ELSE "continue"

\* handleWin that records the winner and leaves the game active.
handleWin_StaysActive ==
    /\ winner' = currentPlayer
    /\ UNCHANGED gameActive

handleWin ==
    /\ gameActive' = FALSE
    /\ winner' = currentPlayer

handleDraw ==
    /\ gameActive' = FALSE
    /\ UNCHANGED winner

\* resetGameState that forgets the winner field.
resetGameState_KeepsWinner ==
    /\ board' = EmptyBoard
    /\ currentPlayer' = "X"
    /\ gameActive' = TRUE
    /\ isComputerTurn' = FALSE
    /\ UNCHANGED winner

resetGameState ==
    /\ board' = EmptyBoard
    /\ currentPlayer' = "X"
    /\ gameActive' = TRUE
    /\ winner' = "null"
    /\ isComputerTurn' = FALSE

\* makeComputerMove up to the setTimeout call: the callback is TimerFires.
makeComputerMove ==
    /\ isComputerTurn' = TRUE
    /\ timers' = timers + 1

makeMove(index) ==
    /\ retval' = "undefined"
    /\ lastOp' = CallKind(index)
    /\ UNCHANGED <<mode, gameAreaHidden, fnOut, stale>>
    /\ IF MoveRejected(index)
       THEN UNCHANGED <<core, isComputerTurn, timers, responses>>
       ELSE LET written == [board EXCEPT ![index] = currentPlayer]
                outcome == Outcome(written)
            IN  /\ board' = written
                /\ responses' = IF mode = "vs-computer" /\ currentPlayer = "X"
                                    /\ outcome = "continue"
                                 THEN 0 ELSE -1
                /\ IF outcome = "win"
                   THEN handleWin /\ UNCHANGED <<currentPlayer, isComputerTurn, timers>>
                   ELSE IF outcome = "draw"
                   THEN handleDraw /\ UNCHANGED <<currentPlayer, isComputerTurn, timers>>
                   ELSE /\ currentPlayer' = switchPlayer(currentPlayer)
                        /\ UNCHANGED <<gameActive, winner>>
                        /\ IF mode = "vs-computer" /\ currentPlayer' = "O" /\ gameActive
                           THEN makeComputerMove /\ timers' <= MaxTimers
                           ELSE UNCHANGED <<isComputerTurn, timers>>

\* A handler that returns before reaching makeMove.
Ignored ==
    /\ lastOp' = "ignored"
    /\ UNCHANGED <<core, mode, isComputerTurn, gameAreaHidden, timers, retval, fnOut,
                   stale, responses>>

\* ---------------------------------------------------------------- actions
HandleCellClick ==
    \E index \in IndexInputs :
        IF isComputerTurn THEN Ignored ELSE makeMove(index)

\* Enter pressed on a cell.
HandleCellKeydown ==
    \E index \in IndexInputs :
        IF isComputerTurn THEN Ignored ELSE makeMove(index)

\* Enter reaching the document listener while a cell has focus.
HandleGlobalKeydown ==
    \E index \in IndexInputs :
        IF gameAreaHidden \/ isComputerTurn THEN Ignored ELSE makeMove(index)

\* The callback makeComputerMove handed to setTimeout.
TimerFires ==
    /\ timers > 0
    /\ timers' = timers - 1
    /\ isComputerTurn' = FALSE
    /\ stale' = IF stale > 0 THEN stale - 1 ELSE 0
    /\ UNCHANGED <<mode, gameAreaHidden, retval, fnOut>>
    /\ IF ~gameActive
       THEN /\ UNCHANGED <<core, responses>>
            /\ lastOp' = "timer:inactive"
       ELSE \E found \in findBestMove(board) :
            IF found.index # -1
            THEN LET written == [found.board EXCEPT ![found.index] = "O"]
                     outcome == Outcome(written)
                 IN  /\ board' = written
                     /\ lastOp' = "timer:move"
                     /\ responses' = IF responses = -1 THEN -1
                                      ELSE IF responses = 0 THEN 1 ELSE 2
                     /\ IF outcome = "win"
                        THEN handleWin /\ UNCHANGED currentPlayer
                        ELSE IF outcome = "draw"
                        THEN handleDraw /\ UNCHANGED currentPlayer
                        ELSE /\ currentPlayer' = switchPlayer(currentPlayer)
                             /\ UNCHANGED <<gameActive, winner>>
            ELSE /\ board' = found.board
                 /\ UNCHANGED <<currentPlayer, gameActive, winner, responses>>
                 /\ lastOp' = "timer:nomove"

SelectMode ==
    \E m \in {"two-player", "vs-computer"} :
        /\ mode' = m
        /\ gameAreaHidden' = FALSE
        /\ resetGameState
        /\ lastOp' = "selectMode"
        /\ stale' = timers
        /\ responses' = -1
        /\ UNCHANGED <<timers, retval, fnOut>>

ShowModeSelection ==
    /\ gameAreaHidden' = TRUE
    /\ resetGameState
    /\ lastOp' = "showModeSelection"
    /\ stale' = timers
    /\ responses' = -1
    /\ UNCHANGED <<mode, timers, retval, fnOut>>

RestartGame ==
    /\ resetGameState
    /\ lastOp' = "restartGame"
    /\ stale' = timers
    /\ responses' = -1
    /\ UNCHANGED <<mode, gameAreaHidden, timers, retval, fnOut>>

Next ==
    \/ HandleCellClick
    \/ HandleCellKeydown
    \/ HandleGlobalKeydown
    \/ TimerFires
    \/ SelectMode
    \/ ShowModeSelection
    \/ RestartGame

Spec == Init /\ [][Next]_vars

\* ------------------------------------------------------------ legal play
\* A two-player game: the state selectMode('two-player') leaves behind, and
\* from there cell events and restartGame only. No callback is ever
\* scheduled, so the marks are placed X, O, X, ... by makeMove alone.
InitLegal ==
    /\ board = EmptyBoard
    /\ currentPlayer = "X"
    /\ gameActive = TRUE
    /\ winner = "null"
    /\ mode = "two-player"
    /\ isComputerTurn = FALSE
    /\ gameAreaHidden = FALSE
    /\ timers = 0
    /\ lastOp = "selectMode"
    /\ retval = "none"
    /\ fnOut = NoCall
    /\ stale = 0
    /\ responses = -1

NextLegal ==
    \/ HandleCellClick
    \/ HandleCellKeydown
    \/ HandleGlobalKeydown
    \/ RestartGame

SpecLegal == InitLegal /\ [][NextLegal]_vars

\* ------------------------------------------- the helpers called directly
\* Every board over {"", "X", "O"}^9 as the argument of one helper call.
InitFn ==
    /\ board \in AllBoards
    /\ currentPlayer = "X"
    /\ gameActive = TRUE
    /\ winner = "null"
    /\ mode = "null"
    /\ isComputerTurn = FALSE
    /\ gameAreaHidden = TRUE
    /\ timers = 0
    /\ lastOp = "init"
    /\ retval = "none"
    /\ fnOut = NoCall
    /\ stale = 0
    /\ responses = -1

CallCheckWin ==
    /\ fnOut.fn = "none"
    /\ fnOut' = [fn |-> "checkWin", arg |-> board, result |-> checkWin(board)]
    /\ UNCHANGED <<core, mode, isComputerTurn, gameAreaHidden, timers, lastOp, retval,
                   stale, responses>>

CallCheckDraw ==
    /\ fnOut.fn = "none"
    /\ fnOut' = [fn |-> "checkDraw", arg |-> board, result |-> checkDraw(board)]
    /\ UNCHANGED <<core, mode, isComputerTurn, gameAreaHidden, timers, lastOp, retval,
                   stale, responses>>

CallFindBestMove ==
    /\ fnOut.fn = "none"
    /\ \E found \in findBestMove(board) :
        /\ fnOut' = [fn |-> "findBestMove", arg |-> board, result |-> found.index]
        /\ board' = found.board
    /\ UNCHANGED <<currentPlayer, gameActive, winner, mode, isComputerTurn,
                   gameAreaHidden, timers, lastOp, retval, stale, responses>>

NextFn ==
    \/ CallCheckWin
    \/ CallCheckDraw
    \/ CallFindBestMove

SpecFn == InitFn /\ [][NextFn]_vars

\* ------------------------------------------------------------- properties
ResetOps == {"restartGame", "selectMode", "showModeSelection"}

MoveOps == {"makeMove:valid", "makeMove:occupied", "makeMove:inactive",
            "makeMove:outOfRange"}

Filled(b) == Cardinality({i \in Cells : b[i] # ""})

Full(b) == \A i \in Cells : b[i] # ""

\* The mark the alternation X, O, X, ... puts on a board holding n marks.
MarkDue(n) == IF n % 2 = 0 THEN "X" ELSE "O"

\* C1: every mark placed since the last reset follows the alternation
\* X, O, X, O, ... beginning with X, and currentPlayer toggles after every
\* accepted move that does not end the game.
C1_Alternation ==
    [][ /\ \A i \in Cells :
              (board[i] = "" /\ board'[i] # "") => board'[i] = MarkDue(Filled(board))
        /\ (lastOp' \in {"makeMove:valid", "timer:move"} /\ board' # board /\ gameActive')
              => currentPlayer' # currentPlayer ]_vars

\* C2: once gameActive is false, every makeMove call and every timer
\* callback leaves board, currentPlayer and winner as they are; only a
\* reset changes them.
C2_TerminalFrozen ==
    [][ (~gameActive /\ lastOp' \notin ResetOps)
            => UNCHANGED <<board, currentPlayer, winner>> ]_vars

\* A makeMove call on an empty cell has just been made after a win.
C2_Witness ==
    ~gameActive /\ winner # "null" /\ lastOp = "makeMove:inactive"

C4_ResetRestoresInitial ==
    [][ lastOp' \in ResetOps
            => /\ board' = EmptyBoard
               /\ currentPlayer' = "X"
               /\ gameActive' = TRUE
               /\ winner' = "null"
               /\ isComputerTurn' = FALSE
               /\ lastOp' # "selectMode" => mode' = mode
               /\ lastOp' = "selectMode" => mode' \in {"two-player", "vs-computer"} ]_vars

\* restartGame has just run while a computer move was pending.
C4_Witness ==
    /\ lastOp = "restartGame"
    /\ timers > 0
    /\ mode = "vs-computer"
    /\ board = EmptyBoard

\* The eight lines in the order the claim lists them.
C5_Lines ==
    << <<0, 1, 2>>, <<3, 4, 5>>, <<6, 7, 8>>,
       <<0, 3, 6>>, <<1, 4, 7>>, <<2, 5, 8>>,
       <<0, 4, 8>>, <<2, 4, 6>> >>

C5_Held(b) ==
    {k \in 1..8 : \E m \in Marks : \A j \in 1..3 : b[C5_Lines[k][j]] = m}

\* C5: checkWin returns null iff no line holds three identical marks, and
\* otherwise the first such line in the order rows, columns, diagonals.
C5_CheckWinFirstLine ==
    fnOut.fn = "checkWin" =>
        LET held == C5_Held(fnOut.arg)
        IN  IF held = {} THEN fnOut.result = NULL
            ELSE fnOut.result = C5_Lines[CHOOSE k \in held : \A o \in held : k <= o]

\* checkWin was called on a board holding two complete lines, the later of
\* them a row and the earlier one not the top row.
C5_Witness ==
    /\ fnOut.fn = "checkWin"
    /\ Cardinality(C5_Held(fnOut.arg)) >= 2
    /\ fnOut.result = <<3, 4, 5>>

\* C6: a move that fills the last cell and completes a line ends the game
\* as a win with winner set; gameActive = false with winner = null happens
\* only on a full board on which checkWin returns null.
C6_WinBeforeDraw ==
    /\ [] ((~gameActive /\ winner = "null") => (Full(board) /\ checkWin(board) = NULL))
    /\ [][ (lastOp' \in {"makeMove:valid", "timer:move"} /\ board' # board
              /\ Full(board') /\ C5_Held(board') # {})
            => (~gameActive' /\ winner' \in Marks) ]_vars

\* The ninth mark completed a line: the board is full and there is a winner.
C6_Witness ==
    Full(board) /\ ~gameActive /\ winner \in Marks /\ checkWin(board) # NULL

\* C7: winner is non-null only while gameActive is false, and gameActive
\* goes from false to true only by a reset (so between two resets it falls
\* at most once).
C7_WinnerOnlyWhenInactive ==
    /\ [] (winner # "null" => ~gameActive)
    /\ [][ (~gameActive /\ gameActive') => lastOp' \in ResetOps ]_vars

\* A game has been won.
C7_Witness ==
    winner \in Marks /\ ~gameActive /\ lastOp \in {"makeMove:valid", "timer:move"}

\* C8: whenever the timer callback writes a mark, the session is active,
\* the cell written was empty and the mark equals currentPlayer.
C8_ComputerMoveValidated ==
    [][ lastOp' = "timer:move"
            => /\ gameActive
               /\ \A i \in Cells :
                     board'[i] # board[i] => (board[i] = "" /\ board'[i] = currentPlayer) ]_vars

\* C9: while a computer move is pending no human move is accepted onto the
\* board, and at most one computer move is pending at any time.
C9_OneActor ==
    /\ [] (timers <= 1)
    /\ [][ (lastOp' \in MoveOps /\ board' # board) => timers = 0 ]_vars

\* C10: findBestMove returns -1 exactly when the board is full, and
\* otherwise the index of a cell that is empty.
C10_ReturnsEmptyCell ==
    fnOut.fn = "findBestMove" =>
        /\ (fnOut.result = -1) <=> Full(fnOut.arg)
        /\ fnOut.result # -1 => (fnOut.result \in Cells /\ fnOut.arg[fnOut.result] = "")

\* findBestMove chose among the edges of a board whose centre and corners
\* are taken.
C10_Witness ==
    /\ fnOut.fn = "findBestMove"
    /\ fnOut.result \in {1, 3, 5, 7}
    /\ \A i \in {0, 2, 4, 6, 8} : fnOut.arg[i] # ""
    /\ Filled(fnOut.arg) <= 7

\* The empty cells of b that complete a line of three m when filled with m.
WinningCells(b, m) ==
    {i \in Cells : b[i] = "" /\ C5_Held([b EXCEPT ![i] = m]) # {}}

Lowest(S) == CHOOSE i \in S : \A o \in S : i <= o

\* C11: a findBestMove call leaves all nine cells, currentPlayer,
\* gameActive and winner as they were before the call, on every return path.
C11_NoNetEffect ==
    [][ fnOut'.fn = "findBestMove" => UNCHANGED <<board, currentPlayer, gameActive, winner>> ]_vars

\* findBestMove has returned from inside the win loop, having tried and
\* taken back at least one other cell before.
C11_Witness ==
    /\ fnOut.fn = "findBestMove"
    /\ board = fnOut.arg
    /\ C5_Held(fnOut.arg) = {}
    /\ fnOut.result \in WinningCells(fnOut.arg, "O")
    /\ \E i \in Cells : i < fnOut.result /\ fnOut.arg[i] = ""

\* C12: on a board without a completed line on which O has an immediately
\* winning cell, findBestMove returns the lowest such cell, also when X has
\* an immediately winning cell.
C12_WinNowFirst ==
    (fnOut.fn = "findBestMove" /\ C5_Held(fnOut.arg) = {}
        /\ WinningCells(fnOut.arg, "O") # {})
    => fnOut.result = Lowest(WinningCells(fnOut.arg, "O"))

\* O has two winning cells and X has a winning cell below both of them.
C12_Witness ==
    /\ fnOut.fn = "findBestMove"
    /\ C5_Held(fnOut.arg) = {}
    /\ Cardinality(WinningCells(fnOut.arg, "O")) >= 2
    /\ \E x \in WinningCells(fnOut.arg, "X") : x < fnOut.result
    /\ fnOut.result = Lowest(WinningCells(fnOut.arg, "O"))

\* C13: on a board without a completed line on which O has no winning cell
\* and X has one, findBestMove returns X's lowest winning cell; with X on
\* 0 and 1 and the rest empty that is 2.
C13_BlockSecond ==
    (fnOut.fn = "findBestMove" /\ C5_Held(fnOut.arg) = {}
        /\ WinningCells(fnOut.arg, "O") = {}
        /\ WinningCells(fnOut.arg, "X") # {})
    => /\ fnOut.result = Lowest(WinningCells(fnOut.arg, "X"))
       /\ fnOut.arg = [i \in Cells |-> IF i \in {0, 1} THEN "X" ELSE ""]
             => fnOut.result = 2

\* X threatens twice, O not at all, and the lower threat was blocked.
C13_Witness ==
    /\ fnOut.fn = "findBestMove"
    /\ C5_Held(fnOut.arg) = {}
    /\ WinningCells(fnOut.arg, "O") = {}
    /\ Cardinality(WinningCells(fnOut.arg, "X")) >= 2
    /\ fnOut.result = Lowest(WinningCells(fnOut.arg, "X"))

C14_Quiet(b) ==
    /\ ~Full(b)
    /\ C5_Held(b) = {}
    /\ WinningCells(b, "O") = {}
    /\ WinningCells(b, "X") = {}

\* C14: on a non-full board without a completed line and without a winning
\* cell for either mark, findBestMove returns 4 if it is empty, otherwise
\* an empty corner if there is one, otherwise an empty edge.
C14_CentreCornerEdge ==
    (fnOut.fn = "findBestMove" /\ C14_Quiet(fnOut.arg))
    => LET b == fnOut.arg
           r == fnOut.result
           freeCorners == {c \in {0, 2, 6, 8} : b[c] = ""}
           freeEdges == {e \in {1, 3, 5, 7} : b[e] = ""}
       IN  IF b[4] = "" THEN r = 4
           ELSE IF freeCorners # {} THEN r \in freeCorners
           ELSE r \in freeEdges

\* The centre and all corners are taken and an edge was chosen among
\* several free ones.
C14_Witness ==
    /\ fnOut.fn = "findBestMove"
    /\ C14_Quiet(fnOut.arg)
    /\ \A i \in {0, 2, 4, 6, 8} : fnOut.arg[i] # ""
    /\ fnOut.result \in {3, 5, 7}

\* The cells a step wrote a mark on.
Written == {i \in Cells : board[i] # board'[i]}

\* C15: in a vs-computer game every accepted human X move that leaves the
\* game running schedules a computer move; with no reset in between, the
\* callbacks that run after it place exactly one O, on an empty cell, and
\* that hands the turn back to the human (isComputerTurn false and
\* currentPlayer X, or the game over).
C15_OneReply ==
    /\ [] (responses <= 1)
    /\ [][ (lastOp' = "makeMove:valid" /\ responses' = 0)
              => (isComputerTurn' /\ timers' = timers + 1) ]_vars
    /\ [][ (responses = 0 /\ responses' = 1)
              => /\ \E i \in Cells : Written = {i} /\ board[i] = "" /\ board'[i] = "O"
                 /\ ~isComputerTurn'
                 /\ (currentPlayer' = "X" \/ ~gameActive') ]_vars

\* C16: the callback never writes a mark when it was scheduled before the
\* last reset, and never in a two-player game.
C16_ResetIsolates ==
    [][ lastOp' = "timer:move" => (stale = 0 /\ mode # "two-player") ]_vars

\* C17 as stated: in legal play at most one of the eight lines ever holds
\* three identical marks.
C17_SingleLine == Cardinality(C5_Held(board)) <= 1

\* C17 amended: in legal play a move completes at most two lines at once,
\* so at most two lines hold three identical marks, all of them the
\* winner's and only once the game is over.
C17_AtMostTwoLines ==
    /\ Cardinality(C5_Held(board)) <= 2
    /\ \A k \in C5_Held(board) :
          /\ ~gameActive
          /\ \A j \in 1..3 : board[C5_Lines[k][j]] = winner

\* A game has ended on a move that completed two lines.
C17_Witness ==
    ~gameActive /\ winner \in Marks /\ Cardinality(C5_Held(board)) = 2

\* C18: whenever winner is set, the line checkWin reports holds three marks
\* of the winner.
C18_WinnerOwnsLine ==
    winner # "null" =>
        LET line == checkWin(board)
        IN  /\ line # NULL
            /\ \A j \in 1..3 : board[line[j]] = winner

Count(b, m) == Cardinality({i \in Cells : b[i] = m})

\* C19: the board holds as many X as O or one X more, and while the game
\* is active it holds as many exactly when currentPlayer is X.
C19_MarkCount ==
    LET d == Count(board, "X") - Count(board, "O")
    IN  /\ d \in {0, 1}
        /\ gameActive => (d = 0 <=> currentPlayer = "X")

\* C20: gameActive holds exactly while the board has no completed line and
\* an empty cell; every accepted move fills one more cell, so a game is
\* over after at most nine; the callback never finds findBestMove without
\* a cell to return.
C20_ActiveIffPlayable ==
    /\ [] (gameActive <=> (C5_Held(board) = {} /\ ~Full(board)))
    /\ [] (lastOp # "timer:nomove")
    /\ [][ (board' # board /\ lastOp' \notin ResetOps)
              => Filled(board') = Filled(board) + 1 ]_vars

\* The callback has just filled the ninth cell and the game is drawn.
C20_Witness ==
    /\ lastOp = "timer:move"
    /\ Full(board)
    /\ ~gameActive
    /\ winner = "null"

====
